---- MODULE Spec2Model ----
(***************************************************************************)
(* The balance engine of Expence-Manager-Backend: the account registry,    *)
(* the transaction store and the three copies of the balance computation    *)
(* (main.py's ExpenseTracker, data_access.py's MongoDB and SQLiteDatabase;  *)
(* main1.py's ExpenseTracker is the thin wrapper that runs over the two     *)
(* data_access backends).                                                   *)
(*                                                                          *)
(* Amounts are floats in the source; they are modelled as integers, so the  *)
(* arithmetic here is exact; the amounts of the runs are whole numbers,     *)
(* which Python floats add without rounding.  Float arithmetic on decimal   *)
(* fractions is modelled apart (SpecFloat).  Places and categories take no  *)
(* part in any balance and are left out of the records.                     *)
(***************************************************************************)
EXTENDS Integers, Sequences, FiniteSets, TLC

\* ------------------------------------------------------------------ bounds
\* Number of transaction ids the store may hand out in one run.
MaxTx == 2
\* Number of ticks of the created_at clock in one run.
MaxClock == 1

\* ------------------------------------------------------------ input sets
Owners == {"u1", "u2"}
Names == {"A", "B"}
\* The "no destination" sentinel of to_account.
NoAccount == "None"
\* The five types, one of them in another letter case, and a type the code
\* does not know.
Types == {"credit", "debit", "debt_incurred", "transferred",
          "self_transferred", "Transferred", "bonus"}
Amounts == {1, 2}
NegativeAmounts == {-1}
InitialBalances == {-1, 0, 2}
Statuses == {"Pending", "Completed"}
\* "main": main.py's ExpenseTracker; "mongo", "sqlite": main1.py's
\* ExpenseTracker over data_access.MongoDB / data_access.SQLiteDatabase.
Impls == {"main", "mongo", "sqlite"}
Clients == {"c1", "c2"}
\* The date the calls of a run carry unless a run is about dates.
Today == [year |-> 2024, month |-> 1, day |-> 15]

\* What the callers of a run send.  A transfer type may name any destination;
\* the other types leave to_account at its default.  A credit may also carry
\* the negative amount.  The first owner sends every such transaction, the
\* second owner a few on the shared name "A".
TransferTypes == {"transferred", "self_transferred", "Transferred"}

TxInputs ==
    {d \in [account : Names, to_account : Names \cup {NoAccount},
            type : Types, amount : Amounts \cup NegativeAmounts,
            date : {Today}] :
        /\ d.type \notin TransferTypes => d.to_account = NoAccount
        /\ d.amount \in NegativeAmounts => d.type = "credit"}

TxMenu(user_id) ==
    IF user_id = "u1" THEN TxInputs
    ELSE {d \in TxInputs : d.account = "A" /\ d.amount = 2
                           /\ d.type \in {"credit", "transferred"}
                           /\ d.to_account \in {NoAccount, "A"}}

NameMenu(user_id) == IF user_id = "u1" THEN Names ELSE {"A"}

VARIABLES
    impl,          \* which implementation serves the calls of this run
    accounts,      \* the accounts collection/table: documents per (user_id, name)
    transactions,  \* the transactions collection/table, in insertion order
    nextId,        \* the next transaction id (ObjectId / AUTOINCREMENT)
    pending,       \* per client: an add_transaction between its reads and its insert
    last,          \* the last call that returned, with its outcome
    now,           \* the clock that created_at is read from, in its ticks
    result         \* what the last call returned, when it was a query

vars == <<impl, accounts, transactions, nextId, pending, last, now, result>>

\* ------------------------------------------------------------- helpers
\* A value that may be missing (a document without the key).
Some(x) == <<x>>
Absent == <<>>

Idle == [state |-> "idle"]

RECURSIVE Reverse(_)
Reverse(s) == IF s = <<>> THEN <<>> ELSE Append(Reverse(Tail(s)), Head(s))

\* str.lower() on the type strings of this model.
lower(s) == IF s = "Transferred" THEN "transferred" ELSE s

abs(x) == IF x < 0 THEN -x ELSE x

\* ------------------------------------------------- reads of the store
\* find({"user_id": user_id}) on the accounts collection, and the names in it.
\* The names come back once per document.
AccountNames(accs, user_id) == {n \in Names : accs[<<user_id, n>>] > 0}

RECURSIVE get_accounts_of(_, _, _)
get_accounts_of(accs, user_id, names) ==
    IF names = {} THEN <<>>
    ELSE LET n == CHOOSE x \in names : TRUE
             rest == get_accounts_of(accs, user_id, names \ {n})
         IN  IF accs[<<user_id, n>>] = 0 THEN rest
             ELSE IF accs[<<user_id, n>>] = 1 THEN <<n>> \o rest
             ELSE <<n, n>> \o rest

get_accounts(accs, user_id) == get_accounts_of(accs, user_id, Names)

\* find({"user_id": user_id}).sort("created_at", -1): newest first.
get_transactions(txs, user_id) ==
    Reverse(SelectSeq(txs, LAMBDA t : t.user_id = user_id))

\* Reading an owner's transactions without the account filter.
get_transactions_any_account(txs, user_id, account) ==
    get_transactions(txs, user_id)

\* The same with the filter {"account": account}.
get_transactions_of(txs, user_id, account) ==
    Reverse(SelectSeq(txs, LAMBDA t : t.user_id = user_id /\ t.account = account))

\* SQLiteDatabase._fetch_all: the connection sets no row_factory, so the rows
\* are tuples and dict(row) raises TypeError on the first row; only an empty
\* result comes back.
FetchAll(rows) ==
    IF rows = <<>> THEN [err |-> "none", rows |-> <<>>]
    ELSE [err |-> "TypeError", rows |-> <<>>]

\* -------------------------------------------- aggregate current balances
KeyError == [err |-> "KeyError", balances |-> <<>>]
TypeError == [err |-> "TypeError", balances |-> <<>>]

\* balances[name] += delta; a name that is no key raises KeyError.
Bump(r, name, delta) ==
    IF r.err # "none" THEN r
    ELSE IF name \notin DOMAIN r.balances THEN KeyError
    ELSE [r EXCEPT !.balances[name] = @ + delta]

\* A loop body that knows no debt_incurred.
balances_step_without_debt(r, transaction) ==
    IF lower(transaction.type) = "credit"
    THEN Bump(r, transaction.account, transaction.amount)
    ELSE IF lower(transaction.type) = "debit"
    THEN Bump(r, transaction.account, -transaction.amount)
    ELSE IF lower(transaction.type) \in {"transferred", "self_transferred"}
    THEN IF transaction.to_account # NoAccount
         THEN Bump(Bump(r, transaction.account, -transaction.amount),
                   transaction.to_account, transaction.amount)
         ELSE Bump(r, transaction.account, -transaction.amount)
    ELSE r

\* One pass of the loop body of get_account_balances.
balances_step(r, transaction) ==
    LET account == transaction.account
        amount == transaction.amount
        transaction_type == lower(transaction.type)
        to_account == transaction.to_account
    IN  IF transaction_type = "credit" THEN Bump(r, account, amount)
        ELSE IF transaction_type = "debit" THEN Bump(r, account, -amount)
        ELSE IF transaction_type = "debt_incurred" THEN Bump(r, account, -amount)
        ELSE IF transaction_type \in {"transferred", "self_transferred"}
        THEN IF to_account # NoAccount
             THEN Bump(Bump(r, account, -amount), to_account, amount)
             ELSE Bump(r, account, -amount)
        ELSE r

RECURSIVE balances_loop(_, _)
balances_loop(r, txlist) ==
    IF txlist = <<>> THEN r
    ELSE balances_loop(balances_step(r, Head(txlist)), Tail(txlist))

ZeroBalances(names) == [err |-> "none", balances |-> [n \in names |-> 0]]

\* MongoDB.get_account_balances
Mongo_get_account_balances(accs, txs, user_id) ==
    balances_loop(ZeroBalances(AccountNames(accs, user_id)),
                  get_transactions(txs, user_id))

\* ExpenseTracker.get_all_account_balances of main.py
Main_get_all_account_balances(accs, txs, user_id) ==
    balances_loop(ZeroBalances(AccountNames(accs, user_id)),
                  get_transactions(txs, user_id))

\* SQLiteDatabase.get_account_balances: both reads go through _fetch_all.
SQLite_get_account_balances(accs, txs, user_id) ==
    LET a == FetchAll(get_accounts(accs, user_id))
        t == FetchAll(get_transactions(txs, user_id))
    IN  IF a.err # "none" THEN TypeError
        ELSE IF t.err # "none" THEN TypeError
        ELSE balances_loop(ZeroBalances({}), t.rows)

get_account_balances(i, accs, txs, user_id) ==
    IF i = "main" THEN Main_get_all_account_balances(accs, txs, user_id)
    ELSE IF i = "mongo" THEN Mongo_get_account_balances(accs, txs, user_id)
    ELSE SQLite_get_account_balances(accs, txs, user_id)

\* ------------------------------------------ running balance at insert
\* A loop body that passes over debits.
prev_balance_step_credits_only(prev_balance, t, account) ==
    IF lower(t.type) = "credit" THEN prev_balance + t.amount ELSE prev_balance

\* The loop over prev_transactions of MongoDB.add_transaction and
\* SQLiteDatabase.add_transaction (the two are the same text): one pass.
prev_balance_step(prev_balance, t, account) ==
    LET t_type == lower(t.type)
        t_amount == t.amount
        t_to_account == t.to_account
    IN  IF t_type = "credit" THEN prev_balance + t_amount
        ELSE IF t_type = "debit" THEN prev_balance - t_amount
        ELSE IF t_type = "debt_incurred" THEN prev_balance - t_amount
        ELSE IF t_type \in {"transferred", "self_transferred"}
        THEN IF t_to_account = account
             THEN (prev_balance - t_amount) + t_amount
             ELSE prev_balance - t_amount
        ELSE prev_balance

RECURSIVE prev_balance_loop(_, _, _)
prev_balance_loop(prev_balance, prev_transactions, account) ==
    IF prev_transactions = <<>> THEN prev_balance
    ELSE prev_balance_loop(
             prev_balance_step(prev_balance, Head(prev_transactions), account),
             Tail(prev_transactions), account)

\* "Apply current transaction" of the data_access backends: the balance to
\* store, or Absent when no branch assigns it (a type none of the five).
apply_current(prev_balance, data) ==
    LET t_type == lower(data.type)
        amount == data.amount
        to_account == data.to_account
    IN  IF t_type = "credit" THEN Some(prev_balance + amount)
        ELSE IF t_type = "debit" THEN Some(prev_balance - amount)
        ELSE IF t_type = "debt_incurred" THEN Some(prev_balance - amount)
        ELSE IF t_type \in {"transferred", "self_transferred"}
        THEN IF to_account = data.account
             THEN Some((prev_balance - amount) + amount)
             ELSE Some(prev_balance - amount)
        ELSE Absent

\* What an add_transaction has in hand when it reaches its insert: the
\* outcome so far and the transaction_balance it computed.
Computed(outcome, balance) == [outcome |-> outcome, transaction_balance |-> balance]

\* MongoDB.add_transaction up to (not including) insert_one.  A type that is
\* none of the five leaves the key transaction_balance out of the document.
Mongo_add_read(txs, user_id, data) ==
    LET prev_transactions == get_transactions_of(txs, user_id, data.account)
        prev_balance == prev_balance_loop(0, prev_transactions, data.account)
    IN  Computed("ok", apply_current(prev_balance, data))

\* SQLiteDatabase.add_transaction up to the INSERT.  get_transactions goes
\* through _fetch_all; a type that is none of the five leaves the local
\* transaction_balance unbound when params is built.
SQLite_add_read(txs, user_id, data) ==
    LET fetched == FetchAll(get_transactions_of(txs, user_id, data.account))
        prev_balance == prev_balance_loop(0, fetched.rows, data.account)
        balance == apply_current(prev_balance, data)
    IN  IF fetched.err # "none" THEN Computed("TypeError", Absent)
        ELSE IF balance = Absent THEN Computed("UnboundLocalError", Absent)
        ELSE Computed("ok", balance)

\* main.py: the loop over outgoing_cursor ...
RECURSIVE outgoing_loop(_, _)
outgoing_loop(prev_balance, outgoing) ==
    IF outgoing = <<>> THEN prev_balance
    ELSE LET t == Head(outgoing)
             t_type == lower(t.type)
             t_amount == t.amount
         IN  outgoing_loop(
                 IF t_type = "credit" THEN prev_balance + t_amount
                 ELSE IF t_type \in {"debit", "debt_incurred", "transferred",
                                     "self_transferred"}
                 THEN prev_balance - t_amount
                 ELSE prev_balance,
                 Tail(outgoing))

\* ... and the loop over incoming_cursor.
RECURSIVE incoming_loop(_, _)
incoming_loop(prev_balance, incoming) ==
    IF incoming = <<>> THEN prev_balance
    ELSE incoming_loop(prev_balance + Head(incoming).amount, Tail(incoming))

\* The two cursors of main.py's add_transaction.  The $in of the incoming
\* query compares the stored type string as it is (no lower()).
outgoing_cursor(txs, user_id, account_name) ==
    SelectSeq(txs, LAMBDA t : t.user_id = user_id /\ t.account = account_name)

incoming_cursor(txs, user_id, account_name) ==
    SelectSeq(txs, LAMBDA t : /\ t.user_id = user_id
                              /\ t.to_account = account_name
                              /\ t.type \in {"transferred", "self_transferred"})

\* An "apply" that books every transfer as incoming.
Main_apply_incoming(prev_balance, data) ==
    IF lower(data.type) = "credit" THEN prev_balance + data.amount
    ELSE IF lower(data.type) \in {"debit", "debt_incurred"}
    THEN prev_balance - data.amount
    ELSE IF lower(data.type) \in {"transferred", "self_transferred"}
    THEN prev_balance + data.amount
    ELSE prev_balance

\* "Apply this transaction" of main.py.
Main_apply(prev_balance, data) ==
    LET t_type == lower(data.type)
        amount == data.amount
    IN  IF t_type = "credit" THEN prev_balance + amount
        ELSE IF t_type \in {"debit", "debt_incurred"} THEN prev_balance - amount
        ELSE IF t_type \in {"transferred", "self_transferred"}
        THEN IF data.account = data.to_account
             THEN prev_balance + amount
             ELSE prev_balance - amount
        ELSE prev_balance

\* main.py's validation that the accounts exist.
Main_validate(accs, user_id, data) ==
    /\ data.account \in AccountNames(accs, user_id)
    /\ data.to_account # NoAccount => data.to_account \in AccountNames(accs, user_id)

\* ExpenseTracker.add_transaction of main.py up to insert_one.
Main_add_read(accs, txs, user_id, data) ==
    LET outgoing == outgoing_cursor(txs, user_id, data.account)
        incoming == incoming_cursor(txs, user_id, data.account)
        prev_balance == incoming_loop(outgoing_loop(0, outgoing), incoming)
    IN  IF ~Main_validate(accs, user_id, data) THEN Computed("UnknownAccount", Absent)
        ELSE Computed("ok", Some(Main_apply(prev_balance, data)))

add_read(i, accs, txs, user_id, data) ==
    IF i = "main" THEN Main_add_read(accs, txs, user_id, data)
    ELSE IF i = "mongo" THEN Mongo_add_read(txs, user_id, data)
    ELSE SQLite_add_read(txs, user_id, data)

\* ------------------------------------------------------------- dates
\* Strings are sequences of one-character strings.
Digit == <<"0", "1", "2", "3", "4", "5", "6", "7", "8", "9">>

RECURSIVE Decimal(_)
Decimal(n) ==
    IF n < 10 THEN <<Digit[n + 1]>> ELSE Append(Decimal(n \div 10), Digit[(n % 10) + 1])

RECURSIVE ZeroPad(_, _)
ZeroPad(chars, width) ==
    IF Len(chars) >= width THEN chars ELSE ZeroPad(<<"0">> \o chars, width)

CharValue(c) == CHOOSE v \in 0..9 : Digit[v + 1] = c

RECURSIVE int(_)
int(chars) ==
    IF chars = <<>> THEN 0
    ELSE 10 * int(SubSeq(chars, 1, Len(chars) - 1)) + CharValue(chars[Len(chars)])

\* datetime.combine(date, datetime.min.time())
combine(d) ==
    [kind |-> "datetime", year |-> d.year, month |-> d.month, day |-> d.day,
     hour |-> 0, minute |-> 0, second |-> 0]

\* datetime.strftime("%Y-%m-%d").  %m and %d are two digits; %Y is the year
\* in decimal, which has four digits for the years of the runs (1000..9999).
strftime(dt) ==
    Decimal(dt.year) \o <<"-">> \o ZeroPad(Decimal(dt.month), 2)
        \o <<"-">> \o ZeroPad(Decimal(dt.day), 2)

\* What sqlite3 binds for a datetime parameter: str(datetime), that is
\* isoformat(" "), "YYYY-MM-DD HH:MM:SS".
isoformat(dt) ==
    [kind |-> "str",
     chars |-> ZeroPad(Decimal(dt.year), 4) \o <<"-">> \o ZeroPad(Decimal(dt.month), 2)
               \o <<"-">> \o ZeroPad(Decimal(dt.day), 2) \o <<" ">>
               \o ZeroPad(Decimal(dt.hour), 2) \o <<":">>
               \o ZeroPad(Decimal(dt.minute), 2) \o <<":">>
               \o ZeroPad(Decimal(dt.second), 2)]

\* datetime.fromisoformat of such a string.
fromisoformat(chars) ==
    [kind |-> "datetime",
     year |-> int(SubSeq(chars, 1, 4)), month |-> int(SubSeq(chars, 6, 7)),
     day |-> int(SubSeq(chars, 9, 10)), hour |-> int(SubSeq(chars, 12, 13)),
     minute |-> int(SubSeq(chars, 15, 16)), second |-> int(SubSeq(chars, 18, 19))]

\* The value of the date field as the backend keeps it: a BSON datetime in
\* the Mongo collections, the bound string in the SQLite TIMESTAMP column.
StoredDate(i, dt) == IF i = "sqlite" THEN isoformat(dt) ELSE dt

\* The date conversion of get_transactions on one returned row.
Mongo_format_date(doc) ==
    IF doc.date.kind = "datetime"
    THEN [doc EXCEPT !.date = [kind |-> "str", chars |-> strftime(doc.date)]]
    ELSE doc

SQLite_format_date(t) ==
    IF t.date.kind = "str"
    THEN [t EXCEPT !.date = [kind |-> "str",
                             chars |-> strftime(fromisoformat(t.date.chars))]]
    ELSE IF t.date.kind = "datetime"
    THEN [t EXCEPT !.date = [kind |-> "str", chars |-> strftime(t.date)]]
    ELSE t

\* Nothing returned yet.
NoResult == [err |-> "none", rows |-> <<>>]

\* The document / row that insert_one / INSERT stores.
NewTransaction(id, user_id, data, description, balance) ==
    [id |-> id, user_id |-> user_id, account |-> data.account,
     to_account |-> data.to_account, type |-> data.type, amount |-> data.amount,
     description |-> description, status |-> "Pending",
     transaction_balance |-> balance,
     date |-> StoredDate(impl, combine(data.date)), created_at |-> now]

\* ------------------------------------------------------------ the calls
Call(op, user_id, arg, outcome) ==
    [op |-> op, user |-> user_id, arg |-> arg, outcome |-> outcome]

\* A filter on the id alone.
TxIndexAnyOwner(txs, user_id, id) == {i \in DOMAIN txs : txs[i].id = id}

\* A delete that also takes the deleted amount out of the balances stored
\* with the transactions that follow it.
RemoveAtRecomputing(s, i) ==
    [j \in 1..(Len(s) - 1) |->
        IF j < i THEN s[j]
        ELSE [s[j + 1] EXCEPT !.transaction_balance =
                 IF @ = <<>> THEN @ ELSE <<@[1] - s[i].amount>>]]

\* An update that also resets the stored balance.
SetStatusAndBalance(t, new_status) ==
    [t EXCEPT !.status = new_status, !.transaction_balance = <<0>>]

\* {"$set": {"status": new_status}} / SET status = ?
SetStatus(t, new_status) == [t EXCEPT !.status = new_status]

\* A delete that drops the oldest stored transaction, whichever was named.
RemoveOldest(s, i) == Tail(s)

TxIndex(txs, user_id, id) ==
    {i \in DOMAIN txs : txs[i].id = id /\ txs[i].user_id = user_id}

RemoveAt(s, i) == SubSeq(s, 1, i - 1) \o SubSeq(s, i + 1, Len(s))

\* An accounts collection without the unique index.
NoUniqueIndex(accs, user_id, name) == TRUE

\* The unique index on (user_id, name) of the accounts collection, and the
\* UNIQUE(user_id, name) of the accounts table: whether the insert goes through.
UniqueIndexAllows(accs, user_id, name) == name \notin AccountNames(accs, user_id)

\* The arguments create_account passes on for the Opening Balance.
OpeningBalance(name, initial_balance) ==
    [account |-> name, to_account |-> NoAccount,
     type |-> IF initial_balance > 0 THEN "credit" ELSE "debit",
     amount |-> abs(initial_balance), date |-> Today]

Init ==
    /\ impl \in Impls
    /\ accounts = [k \in Owners \X Names |-> 0]
    /\ transactions = <<>>
    /\ nextId = 1
    /\ pending = [c \in Clients |-> Idle]
    /\ last = Call("none", "none", <<>>, "none")
    /\ now = 0
    /\ result = NoResult

\* ExpenseTracker.create_account (main.py, and main1.py over a backend): the
\* account is inserted first; a non-zero initial balance then goes through
\* add_transaction, whose failure leaves the account in place.
CreateAccount(user_id, name, initial_balance) ==
    LET arg == [name |-> name, initial_balance |-> initial_balance]
        accs == [accounts EXCEPT ![<<user_id, name>>] = @ + 1]
        data == OpeningBalance(name, initial_balance)
        r == add_read(impl, accs, transactions, user_id, data)
    IN  /\ initial_balance # 0 => nextId <= MaxTx
        /\ UNCHANGED <<impl, pending, now>>
        /\ result' = NoResult
        /\ IF ~UniqueIndexAllows(accounts, user_id, name)
           THEN /\ UNCHANGED <<accounts, transactions, nextId>>
                /\ last' = Call("create_account", user_id, arg, "DuplicateAccount")
           ELSE /\ accounts' = accs
                /\ IF initial_balance = 0
                   THEN /\ UNCHANGED <<transactions, nextId>>
                        /\ last' = Call("create_account", user_id, arg, "ok")
                   ELSE IF r.outcome = "ok"
                   THEN /\ transactions' = Append(transactions,
                               NewTransaction(nextId, user_id, data,
                                              "Opening Balance", r.transaction_balance))
                        /\ nextId' = nextId + 1
                        /\ last' = Call("create_account", user_id, arg, "ok")
                   ELSE /\ UNCHANGED <<transactions, nextId>>
                        /\ last' = Call("create_account", user_id, arg, r.outcome)

\* add_transaction as one step: the reads, the balance, the insert.
AddTransaction(user_id, data) ==
    LET r == add_read(impl, accounts, transactions, user_id, data)
    IN  /\ nextId <= MaxTx
        /\ UNCHANGED <<impl, accounts, pending, now>>
        /\ result' = NoResult
        /\ last' = Call("add_transaction", user_id, data, r.outcome)
        /\ IF r.outcome = "ok"
           THEN /\ transactions' = Append(transactions,
                       NewTransaction(nextId, user_id, data, "Purchase",
                                      r.transaction_balance))
                /\ nextId' = nextId + 1
           ELSE UNCHANGED <<transactions, nextId>>

\* delete_transaction: delete_one / DELETE on (id, user_id).  The Mongo code
\* returns deleted_count > 0, the SQLite code returns True.
DeleteTransaction(user_id, id) ==
    LET hit == TxIndex(transactions, user_id, id)
    IN  /\ UNCHANGED <<impl, accounts, nextId, pending, now>>
        /\ result' = NoResult
        /\ transactions' = IF hit = {} THEN transactions
                           ELSE RemoveAt(transactions, CHOOSE i \in hit : TRUE)
        /\ last' = Call("delete_transaction", user_id, id,
                        IF impl = "sqlite" \/ hit # {} THEN "true" ELSE "false")

\* update_transaction_status: $set / UPDATE of status on (id, user_id).  The
\* Mongo code returns modified_count > 0, the SQLite code returns True.
UpdateTransactionStatus(user_id, id, new_status) ==
    LET hit == TxIndex(transactions, user_id, id)
        modified == {i \in hit : transactions[i].status # new_status}
    IN  /\ UNCHANGED <<impl, accounts, nextId, pending, now>>
        /\ result' = NoResult
        /\ transactions' = [i \in DOMAIN transactions |->
                              IF i \in hit
                              THEN SetStatus(transactions[i], new_status)
                              ELSE transactions[i]]
        /\ last' = Call("update_transaction_status", user_id,
                        [id |-> id, status |-> new_status],
                        IF impl = "sqlite" \/ modified # {} THEN "true" ELSE "false")

\* Calls made one after another: each returns before the next starts.
Next ==
    \/ \E u \in Owners : \E n \in NameMenu(u), b \in InitialBalances :
           CreateAccount(u, n, b)
    \/ \E u \in Owners : \E d \in TxMenu(u) : AddTransaction(u, d)
    \/ \E u \in Owners, id \in 1..MaxTx : DeleteTransaction(u, id)

Spec == Init /\ [][Next]_vars

\* ---------------------------------------------- overlapping add_transaction
\* add_transaction awaits its reads and then awaits its insert; nothing in
\* the code holds a lock across the two, so calls of other clients may run
\* in between.  AddBegin is the call up to the insert, AddCommit the insert.
Busy == {c \in Clients : pending[c] # Idle}

AddBegin(c, user_id, data) ==
    LET r == add_read(impl, accounts, transactions, user_id, data)
    IN  /\ pending[c] = Idle
        /\ nextId + Cardinality(Busy) <= MaxTx
        /\ UNCHANGED <<impl, accounts, transactions, nextId, now>>
        /\ result' = NoResult
        /\ IF r.outcome = "ok"
           THEN /\ pending' = [pending EXCEPT ![c] =
                       [state |-> "inserting", user |-> user_id, data |-> data,
                        transaction_balance |-> r.transaction_balance]]
                /\ UNCHANGED last
           ELSE /\ UNCHANGED pending
                /\ last' = Call("add_transaction", user_id, data, r.outcome)

AddCommit(c) ==
    /\ pending[c] # Idle
    /\ transactions' = Append(transactions,
           NewTransaction(nextId, pending[c].user, pending[c].data, "Purchase",
                          pending[c].transaction_balance))
    /\ nextId' = nextId + 1
    /\ pending' = [pending EXCEPT ![c] = Idle]
    /\ last' = Call("add_transaction", pending[c].user, pending[c].data, "ok")
    /\ UNCHANGED <<impl, accounts, now>>
    /\ result' = NoResult

\* The transactions the overlapping clients send: the first owner's, of the
\* lower-case types that move a balance.
ConcMenu ==
    {d \in TxInputs : d.type \in {"credit", "debit", "transferred"}}

NextConc ==
    \/ \E n \in Names : CreateAccount("u1", n, 0)
    \/ \E c \in Clients, d \in ConcMenu : AddBegin(c, "u1", d)
    \/ \E c \in Clients : AddCommit(c)
    \/ \E id \in 1..MaxTx : DeleteTransaction("u1", id)

SpecConc == Init /\ [][NextConc]_vars

\* ------------------------------------ get_account_balances as two reads
\* get_account_balances awaits the read of the accounts, builds the zero
\* map, and then awaits the read of the transactions; calls of other clients
\* may run between the two.  BalancesBegin is the call up to the zero map,
\* BalancesEnd the second read and the loop.
BalancesBegin(c, user_id) ==
    LET a == IF impl = "sqlite" THEN FetchAll(get_accounts(accounts, user_id))
             ELSE [err |-> "none", rows |-> get_accounts(accounts, user_id)]
    IN  /\ pending[c] = Idle
        /\ UNCHANGED <<impl, accounts, transactions, nextId, now>>
        /\ IF a.err = "none"
           THEN /\ pending' = [pending EXCEPT ![c] =
                       [state |-> "reading", user |-> user_id,
                        names |-> {a.rows[k] : k \in DOMAIN a.rows}]]
                /\ result' = NoResult
                /\ UNCHANGED last
           ELSE /\ UNCHANGED pending
                /\ result' = TypeError
                /\ last' = Call("get_account_balances", user_id, <<>>, a.err)

BalancesEnd(c) ==
    /\ pending[c] # Idle
    /\ pending[c].state = "reading"
    /\ LET user_id == pending[c].user
           t == IF impl = "sqlite"
                THEN FetchAll(get_transactions(transactions, user_id))
                ELSE [err |-> "none", rows |-> get_transactions(transactions, user_id)]
           r == IF t.err # "none" THEN TypeError
                ELSE balances_loop(ZeroBalances(pending[c].names), t.rows)
       IN  /\ result' = r
           /\ last' = Call("get_account_balances", user_id, <<>>,
                           IF r.err = "none" THEN "ok" ELSE r.err)
    /\ pending' = [pending EXCEPT ![c] = Idle]
    /\ UNCHANGED <<impl, accounts, transactions, nextId, now>>

\* The writes that run beside the queries: credits of the first owner.
QueryMenu ==
    {d \in TxInputs : d.type = "credit" /\ d.amount = 1}

NextQuery ==
    \/ \E n \in Names : CreateAccount("u1", n, 0)
    \/ \E d \in QueryMenu : AddTransaction("u1", d)
    \/ \E c \in Clients : BalancesBegin(c, "u1")
    \/ \E c \in Clients : BalancesEnd(c)

SpecQuery == Init /\ [][NextQuery]_vars

\* ------------------------------------------------- queries and the clock
\* created_at is datetime.utcnow() as the store keeps it (BSON: milliseconds;
\* SQLite CURRENT_TIMESTAMP: seconds): calls within one tick get the same
\* value.
Tick ==
    /\ now < MaxClock
    /\ now' = now + 1
    /\ UNCHANGED <<impl, accounts, transactions, nextId, pending, last, result>>

RECURSIVE Orderings(_)
Orderings(S) ==
    IF S = {} THEN {<<>>}
    ELSE UNION {{<<x>> \o p : p \in Orderings(S \ {x})} : x \in S}

\* sort("created_at", -1) / ORDER BY created_at DESC: every order of the rows
\* in which created_at does not rise; rows of equal created_at come in any
\* order.
sort_created_at_desc(rows) ==
    {s \in Orderings({rows[i] : i \in DOMAIN rows}) :
        \A i, j \in DOMAIN s : i < j => s[i].created_at >= s[j].created_at}

RECURSIVE Map_format_date(_, _)
Map_format_date(i, rows) ==
    IF rows = <<>> THEN <<>>
    ELSE <<IF i = "sqlite" THEN SQLite_format_date(Head(rows))
           ELSE Mongo_format_date(Head(rows))>>
         \o Map_format_date(i, Tail(rows))

\* What get_transactions(user_id) may return: MongoDB.get_transactions and
\* main.py's get_transactions give the sorted documents with the date
\* formatted; SQLiteDatabase.get_transactions goes through _fetch_all.
get_transactions_results(i, txs, user_id) ==
    LET docs == SelectSeq(txs, LAMBDA t : t.user_id = user_id)
    IN  IF i = "sqlite"
        THEN {[err |-> FetchAll(s).err,
               rows |-> Map_format_date(i, FetchAll(s).rows)] :
                  s \in sort_created_at_desc(docs)}
        ELSE {[err |-> "none", rows |-> Map_format_date(i, s)] :
                  s \in sort_created_at_desc(docs)}

GetTransactions(user_id) ==
    /\ \E r \in get_transactions_results(impl, transactions, user_id) :
          /\ result' = r
          /\ last' = Call("get_transactions", user_id, <<>>,
                          IF r.err = "none" THEN "ok" ELSE r.err)
    /\ UNCHANGED <<impl, accounts, transactions, nextId, pending, now>>

\* A query that settles what it has counted: it drops the owner's
\* transactions from the store.
GetAccountBalancesSettling(user_id) ==
    LET r == get_account_balances(impl, accounts, transactions, user_id)
    IN  /\ result' = r
        /\ last' = Call("get_account_balances", user_id, <<>>,
                        IF r.err = "none" THEN "ok" ELSE r.err)
        /\ transactions' = SelectSeq(transactions, LAMBDA t : t.user_id # user_id)
        /\ UNCHANGED <<impl, accounts, nextId, pending, now>>

GetAccountBalances(user_id) ==
    LET r == get_account_balances(impl, accounts, transactions, user_id)
    IN  /\ result' = r
        /\ last' = Call("get_account_balances", user_id, <<>>,
                        IF r.err = "none" THEN "ok" ELSE r.err)
        /\ UNCHANGED <<impl, accounts, transactions, nextId, pending, now>>

\* Every operation, by both owners, over a short list of transactions.
OpsMenu(user_id) ==
    {d \in TxMenu(user_id) :
        /\ d.account = "A"
        /\ d.to_account = NoAccount
        /\ d.type \in {"credit", "debit"}
        /\ user_id = "u1" => d.amount = 1}

NextOps ==
    \/ \E u \in Owners : CreateAccount(u, "A", 0)
    \/ \E u \in Owners : \E d \in OpsMenu(u) : AddTransaction(u, d)
    \/ \E u \in Owners, id \in 1..MaxTx : DeleteTransaction(u, id)
    \/ \E u \in Owners, id \in 1..MaxTx, st \in Statuses :
           UpdateTransactionStatus(u, id, st)
    \/ Tick
    \/ \E u \in Owners : GetTransactions(u)
    \/ \E u \in Owners : GetAccountBalances(u)

SpecOps == Init /\ [][NextOps]_vars

\* ---------------------------------------------------------------- dates
\* The calendar dates of the runs about dates: first and last days of months
\* and years, one- and two-digit months and days.
Dates ==
    {[year |-> 2024, month |-> 1, day |-> 15],
     [year |-> 2024, month |-> 12, day |-> 31],
     [year |-> 1999, month |-> 2, day |-> 3],
     [year |-> 9999, month |-> 10, day |-> 1]}

DateMenu ==
    {d \in [account : {"A"}, to_account : {NoAccount}, type : {"credit"},
            amount : {1}, date : Dates] : TRUE}

\* One owner inserts dated transactions and lists them.
NextDates ==
    \/ CreateAccount("u1", "A", 0)
    \/ \E d \in DateMenu : AddTransaction("u1", d)
    \/ GetTransactions("u1")

SpecDates == Init /\ [][NextDates]_vars

\* --------------------------------------------------------------- floats
\* A Python float is an IEEE 754 binary64.  The runs about floats use values
\* that are zero or positive and normal: Zero, or the exponent e and the
\* Precision bits m of the significand, m[1] = 1, standing for
\* m[1].m[2]...m[Precision] (binary) times 2^e.
Precision == 53
MaxTenths == 10
\* Number of credits a run about floats may store.
MaxCredits == 3

Zero == [e |-> 0, m |-> <<>>]
Zeros(n) == [i \in 1..n |-> 0]

\* The sum of two bit strings of one length and a carry: one bit longer.
\* The carry into a place comes from the nearest place to its right where
\* both bits are set, or from the carry put in, when every place in between
\* holds one set bit.
AddBits(a, b, carry) ==
    LET n == Len(a)
        Passes(from, to) == \A k \in from..to : a[k] + b[k] = 1
        CarryInto(i) ==
            IF \/ \E j \in (i + 1)..n : a[j] + b[j] = 2 /\ Passes(i + 1, j - 1)
               \/ carry = 1 /\ Passes(i + 1, n)
            THEN 1 ELSE 0
    IN  [i \in 1..(n + 1) |->
            IF i = 1 THEN CarryInto(0)
            ELSE (a[i - 1] + b[i - 1] + CarryInto(i - 1)) % 2]

\* 2^k modulo m, by squaring.
RECURSIVE Pow2Mod(_, _)
Pow2Mod(k, m) ==
    IF k = 0 THEN 1 % m
    ELSE LET h == Pow2Mod(k \div 2, m)
         IN  (h * h * (IF k % 2 = 1 THEN 2 ELSE 1)) % m

\* The first n bits of a quotient r / den, 0 <= r < 2 * den, the first of
\* weight 1, and one more bit that is 1 when a remainder is left.
DivBits(r, den, n) ==
    [j \in 1..(n + 1) |->
        IF j <= n THEN ((r * Pow2Mod(j - 1, 2 * den)) % (2 * den)) \div den
        ELSE IF (r * Pow2Mod(n - 1, den)) % den # 0 THEN 1 ELSE 0]

\* Rounding to nearest, ties to even: the binary64 nearest to the number the
\* bit string stands for, its first bit having the weight 2^top.
Round(bits, top) ==
    LET ones == {i \in DOMAIN bits : bits[i] = 1}
    IN  IF ones = {} THEN Zero
        ELSE LET p == CHOOSE i \in ones : \A j \in ones : i <= j
                 Bit(i) == IF i \in DOMAIN bits THEN bits[i] ELSE 0
                 kept == [i \in 1..Precision |-> Bit(p + i - 1)]
                 guard == Bit(p + Precision)
                 sticky == \E i \in ones : i > p + Precision
                 up == guard = 1 /\ (sticky \/ kept[Precision] = 1)
                 inc == AddBits(kept, Zeros(Precision), 1)
             IN  IF ~up THEN [e |-> top - (p - 1), m |-> kept]
                 ELSE IF inc[1] = 1
                 THEN [e |-> top - (p - 1) + 1, m |-> SubSeq(inc, 1, Precision)]
                 ELSE [e |-> top - (p - 1), m |-> SubSeq(inc, 2, Precision + 1)]

\* The float a decimal amount of the request body becomes: the binary64
\* nearest to n / d, for 0 <= n / d < 32.
Double(n, d) == Round(DivBits(n, 16 * d, 64), 4)

\* x + y on floats.
fadd(x, y) ==
    IF x = Zero THEN y
    ELSE IF y = Zero THEN x
    ELSE LET hi == IF x.e >= y.e THEN x.e ELSE y.e
             lo == IF x.e >= y.e THEN y.e ELSE x.e
             Aligned(v) == Zeros(hi - v.e) \o v.m \o Zeros(v.e - lo)
         IN  Round(AddBits(Aligned(x), Aligned(y), 0), hi + 1)

\* float(transaction['amount']) of a stored float is that float.
float(amount) == amount

\* The loops of get_account_balances and of add_transaction over credits on
\* one account: balance += amount, starting from 0.0.
RECURSIVE Float_credit_loop(_, _)
Float_credit_loop(balance, txlist) ==
    IF txlist = <<>> THEN balance
    ELSE Float_credit_loop(fadd(balance, float(Head(txlist).amount)), Tail(txlist))

\* get_account_balances over a store of credits with float amounts.
Float_get_account_balances(i, accs, txs, user_id) ==
    LET names == AccountNames(accs, user_id)
        rows == get_transactions(txs, user_id)
        missing == \E k \in DOMAIN rows : rows[k].account \notin names
        total == [err |-> "none",
                  balances |-> [n \in names |->
                      Float_credit_loop(Zero,
                          SelectSeq(rows, LAMBDA t : t.account = n))]]
    IN  IF i = "sqlite"
        THEN IF FetchAll(get_accounts(accs, user_id)).err # "none"
                \/ FetchAll(rows).err # "none"
             THEN TypeError
             ELSE [err |-> "none", balances |-> <<>>]
        ELSE IF missing THEN KeyError ELSE total

\* add_transaction of a credit with a float amount, up to the insert.  The
\* data_access backends read the account's transactions newest first,
\* main.py reads its outgoing cursor oldest first.
Float_add_read(i, accs, txs, user_id, data) ==
    LET prev == IF i = "main" THEN outgoing_cursor(txs, user_id, data.account)
                ELSE get_transactions_of(txs, user_id, data.account)
        balance == Some(fadd(Float_credit_loop(Zero, prev), float(data.amount)))
    IN  IF i = "main"
        THEN IF Main_validate(accs, user_id, data) THEN Computed("ok", balance)
             ELSE Computed("UnknownAccount", Absent)
        ELSE IF i = "sqlite" /\ FetchAll(prev).err # "none"
        THEN Computed("TypeError", Absent)
        ELSE Computed("ok", balance)

\* The credits of the runs about floats: k tenths on the account "A".
Credit(k) ==
    [account |-> "A", to_account |-> NoAccount, type |-> "credit",
     amount |-> Double(k, 10), date |-> Today]

FloatAddTransaction(user_id, data) ==
    LET r == Float_add_read(impl, accounts, transactions, user_id, data)
    IN  /\ nextId <= MaxCredits
        /\ UNCHANGED <<impl, accounts, pending, now>>
        /\ result' = NoResult
        /\ last' = Call("add_transaction", user_id, data, r.outcome)
        /\ IF r.outcome = "ok"
           THEN /\ transactions' = Append(transactions,
                       NewTransaction(nextId, user_id, data, "Purchase",
                                      r.transaction_balance))
                /\ nextId' = nextId + 1
           ELSE UNCHANGED <<transactions, nextId>>

FloatGetAccountBalances(user_id) ==
    LET r == Float_get_account_balances(impl, accounts, transactions, user_id)
    IN  /\ result' = r
        /\ last' = Call("get_account_balances", user_id, <<>>,
                        IF r.err = "none" THEN "ok" ELSE r.err)
        /\ UNCHANGED <<impl, accounts, transactions, nextId, pending, now>>

NextFloat ==
    \/ CreateAccount("u1", "A", 0)
    \/ \E k \in 0..MaxTenths : FloatAddTransaction("u1", Credit(k))
    \/ FloatGetAccountBalances("u1")

SpecFloat == Init /\ [][NextFloat]_vars

\* ================================================================ claims
\* A step that stores one more transaction, and the transaction it stores.
Stored ==
    /\ Len(transactions') = Len(transactions) + 1
    /\ SubSeq(transactions', 1, Len(transactions)) = transactions

NewTx == transactions'[Len(transactions')]

\* Nothing has been deleted so far: every id handed out is still stored.
NothingDeleted == Len(transactions) = nextId - 1

\* The type classes as the spec names them, whatever the letter case.
IsCredit(t) == t.type = "credit"
IsDebit(t) == t.type \in {"debit", "debt_incurred"}
IsTransfer(t) == t.type \in {"transferred", "self_transferred", "Transferred"}
IsKnownType(t) == IsCredit(t) \/ IsDebit(t) \/ IsTransfer(t)

\* The aggregate balances before and after a step, for one owner.
BalancesBefore(u) == get_account_balances(impl, accounts, transactions, u)
BalancesAfter(u) == get_account_balances(impl, accounts', transactions', u)

\* C1: double entry.  Storing a transferred / self_transferred transaction
\* whose account differs from its to_account changes the aggregate balances
\* so that the deltas of account and of to_account add up to zero, and no
\* other balance changes.  Stated for main.py, which stores only registered
\* accounts, and for amounts above zero.
C1_DoubleEntry ==
    [][ (impl = "main" /\ Stored /\ IsTransfer(NewTx) /\ NewTx.amount > 0
         /\ NewTx.account # NewTx.to_account)
        => LET b == BalancesBefore(NewTx.user_id)
               a == BalancesAfter(NewTx.user_id)
               from == NewTx.account
               to == NewTx.to_account
           IN  /\ a.err = "none" /\ b.err = "none"
               /\ DOMAIN a.balances = DOMAIN b.balances
               /\ from \in DOMAIN b.balances /\ to \in DOMAIN b.balances
               /\ (a.balances[from] - b.balances[from])
                    + (a.balances[to] - b.balances[to]) = 0
               /\ \A n \in DOMAIN b.balances \ {from, to} :
                      a.balances[n] = b.balances[n]
      ]_vars

\* Whether a call's account, or its to_account when that is not the
\* sentinel, names no account of the owner.
MissingAccount(accs, user_id, data) ==
    \/ data.account \notin AccountNames(accs, user_id)
    \/ /\ data.to_account # NoAccount
       /\ data.to_account \notin AccountNames(accs, user_id)

\* C2: an add_transaction that names an account the owner does not have
\* fails with UnknownAccount and leaves the transactions and the accounts as
\* they were (amounts above zero).
C2_UnknownAccountRejected ==
    [][ (last'.op = "add_transaction" /\ last'.arg.amount > 0
         /\ MissingAccount(accounts, last'.user, last'.arg))
        => /\ last'.outcome = "UnknownAccount"
           /\ transactions' = transactions
           /\ accounts' = accounts
      ]_vars

\* C6: a negative amount is refused, so every stored transaction has an
\* amount of zero or more.  Stated for main.py, whose stored transactions all
\* name registered accounts.
C6_AmountNonNegative ==
    impl = "main" => \A i \in DOMAIN transactions : transactions[i].amount >= 0

\* What one transaction adds to the running balance of this_account, as the
\* spec's table gives it: a credit adds, a debit or debt_incurred subtracts,
\* a transfer subtracts and adds back when it names this_account as its
\* destination.
SignedEffect(t, this_account) ==
    IF IsCredit(t) THEN t.amount
    ELSE IF IsDebit(t) THEN 0 - t.amount
    ELSE IF IsTransfer(t) /\ t.to_account # this_account THEN 0 - t.amount
    ELSE 0

RECURSIVE SumEffects(_, _, _)
SumEffects(txs, S, this_account) ==
    IF S = {} THEN 0
    ELSE LET i == CHOOSE x \in S : TRUE
         IN  SignedEffect(txs[i], this_account)
               + SumEffects(txs, S \ {i}, this_account)

\* The stored transactions of one owner whose account field is this account.
SameAccount(txs, user_id, account) ==
    {i \in DOMAIN txs : txs[i].user_id = user_id /\ txs[i].account = account}

\* C3: in the data_access backends the transaction_balance stored by an
\* insert is the sum of the effects of the owner's transactions that are in
\* the store at that moment and have the same account field, plus the effect
\* of the new transaction itself.
C3_RunningBalanceFold ==
    [][ (impl \in {"mongo", "sqlite"} /\ Stored /\ IsKnownType(NewTx))
        => NewTx.transaction_balance =
             Some(SumEffects(transactions,
                             SameAccount(transactions, NewTx.user_id, NewTx.account),
                             NewTx.account)
                  + SignedEffect(NewTx, NewTx.account))
      ]_vars

\* C3 witness: a Mongo insert whose stored balance carries the effect of an
\* earlier transaction of the same account.
C3_Witness ==
    /\ impl = "mongo"
    /\ \E i, j \in DOMAIN transactions :
          /\ i < j
          /\ transactions[i].user_id = transactions[j].user_id
          /\ transactions[i].account = transactions[j].account
          /\ IsKnownType(transactions[j])
          /\ SignedEffect(transactions[i], transactions[i].account) # 0
          /\ transactions[j].transaction_balance =
               Some(SignedEffect(transactions[i], transactions[i].account)
                    + SignedEffect(transactions[j], transactions[j].account))

\* C3 holds on SQLite only in the shape of a first insert: a second insert on
\* the same account ends in the TypeError of _fetch_all and stores nothing.

\* The arguments a stored transaction was inserted with.
TxData(t) ==
    [account |-> t.account, to_account |-> t.to_account, type |-> t.type,
     amount |-> t.amount, date |-> Today]

\* The transaction_balance the j-th stored transaction has when the inserts
\* ran one after another in the order of the store: computed from exactly the
\* transactions stored before it.
SerialBalance(j) ==
    LET t == transactions[j]
        before == SubSeq(transactions, 1, j - 1)
    IN  IF impl = "main"
        THEN Main_add_read(accounts, before, t.user_id, TxData(t)).transaction_balance
        ELSE Some(SumEffects(before, SameAccount(before, t.user_id, t.account),
                             t.account)
                  + SignedEffect(t, t.account))

\* C4: inserts of one owner are serialized.  While nothing has been deleted,
\* every stored transaction_balance is the one computed from exactly the
\* transactions committed before it, also when add_transaction calls overlap.
\* Stated for main.py, whose stored transactions all name registered accounts,
\* and for amounts above zero.
C4_SerializedInserts ==
    (/\ impl = "main"
     /\ NothingDeleted
     /\ \A j \in DOMAIN transactions : transactions[j].amount > 0) =>
        \A j \in DOMAIN transactions :
            transactions[j].transaction_balance = SerialBalance(j)

\* C5: storing a transferred / self_transferred transaction whose account
\* equals its to_account leaves every aggregate balance that
\* get_account_balances returned before the insert unchanged.
C5_SelfTransferNeutral ==
    [][ (/\ Stored
         /\ NewTx.type \in {"transferred", "self_transferred"}
         /\ NewTx.account = NewTx.to_account
         /\ BalancesBefore(NewTx.user_id).err = "none"
         /\ DOMAIN BalancesBefore(NewTx.user_id).balances # {})
        => BalancesAfter(NewTx.user_id) = BalancesBefore(NewTx.user_id)
      ]_vars

\* The owner's stored transactions, oldest first.
History(u) == SelectSeq(transactions, LAMBDA t : t.user_id = u)

\* The scenario of C7: the owner has the accounts A and B, nothing was
\* deleted, and the owner's whole history is a credit into A followed by a
\* transferred from A to B (the accounts were created empty: the credit is
\* no Opening Balance).
CreditThenTransfer(u, A, B) ==
    /\ NothingDeleted
    /\ {A, B} \subseteq AccountNames(accounts, u)
    /\ Len(History(u)) = 2
    /\ History(u)[1].type = "credit"
    /\ History(u)[1].account = A
    /\ History(u)[1].description # "Opening Balance"
    /\ History(u)[2].type = "transferred"
    /\ History(u)[2].account = A
    /\ History(u)[2].to_account = B

\* C7: after a credit of c into A and then a transferred of t from A to B,
\* both accounts created empty, get_account_balances returns A = c - t and
\* B = t, and the transfer's stored transaction_balance is c - t (main.py and
\* the Mongo backend).
C7_CreditThenTransfer ==
    \A u \in Owners, A \in Names, B \in Names :
        (impl \in {"main", "mongo"} /\ A # B /\ CreditThenTransfer(u, A, B))
        => LET c == History(u)[1].amount
               t == History(u)[2].amount
               r == get_account_balances(impl, accounts, transactions, u)
           IN  /\ r.err = "none"
               /\ r.balances[A] = c - t
               /\ r.balances[B] = t
               /\ History(u)[2].transaction_balance = Some(c - t)

\* C7 witness: main.py after a credit of 2 into A and a transfer of 1 to B.
C7_Witness ==
    /\ impl = "main"
    /\ CreditThenTransfer("u1", "A", "B")
    /\ History("u1")[1].amount = 2
    /\ History("u1")[2].amount = 1
    /\ History("u1")[2].transaction_balance = Some(1)

\* The owner's stored transactions that touch an account, as account or as
\* to_account.
Touching(u, a) ==
    {i \in DOMAIN transactions :
        /\ transactions[i].user_id = u
        /\ (transactions[i].account = a \/ transactions[i].to_account = a)}

\* The scenario of C8: nothing was deleted and everything the owner stored
\* on the account is a credit or a debit.
CreditsAndDebitsOnly(u, a) ==
    /\ NothingDeleted
    /\ \A i \in Touching(u, a) :
          /\ transactions[i].account = a
          /\ transactions[i].type \in {"credit", "debit"}

\* The transaction_balance of the transaction inserted before the i-th, on
\* the same account; 0 for the first.
PreviousBalance(u, a, i) ==
    LET earlier == {j \in Touching(u, a) : j < i}
    IN  IF earlier = {} THEN Some(0)
        ELSE transactions[CHOOSE j \in earlier : \A k \in earlier : k <= j]
               .transaction_balance

C9_OpeningBalance ==
    [][ (/\ impl \in {"main", "mongo"}
         /\ last'.op = "create_account"
         /\ accounts[<<last'.user, last'.arg.name>>] = 0)
        => LET u == last'.user
               n == last'.arg.name
               b == last'.arg.initial_balance
               r == BalancesAfter(u)
           IN  /\ b = 0 => transactions' = transactions
               /\ b # 0 => /\ Stored
                           /\ NewTx.user_id = u
                           /\ NewTx.account = n
                           /\ NewTx.description = "Opening Balance"
                           /\ NewTx.type = (IF b > 0 THEN "credit" ELSE "debit")
                           /\ NewTx.amount = abs(b)
               /\ r.err = "none"
               /\ n \in DOMAIN r.balances
               /\ r.balances[n] = b
      ]_vars

\* C10: no owner has two accounts of one name.  A create_account for a name
\* the owner already has fails with DuplicateAccount, changes no account and
\* stores no transaction, whatever its initial_balance; for a name the owner
\* does not have it is accepted, whoever else has an account of that name.
C10_UniqueAccountNames ==
    [][ /\ \A k \in Owners \X Names : accounts'[k] <= 1
        /\ last'.op = "create_account"
           => LET k == <<last'.user, last'.arg.name>>
              IN  IF accounts[k] > 0
                  THEN /\ last'.outcome = "DuplicateAccount"
                       /\ accounts' = accounts
                       /\ transactions' = transactions
                  ELSE /\ last'.outcome # "DuplicateAccount"
                       /\ accounts' = [accounts EXCEPT ![k] = 1]
      ]_vars

\* C10 witness: a refused create_account with a non-zero initial_balance for
\* a name the owner has, while another owner has an account of that name.
C10_Witness ==
    /\ last.op = "create_account"
    /\ last.outcome = "DuplicateAccount"
    /\ last.arg.initial_balance # 0
    /\ last.user = "u1"
    /\ last.arg.name = "A"
    /\ accounts[<<"u1", "A">>] = 1
    /\ accounts[<<"u2", "A">>] = 1

\* ---------------------------------------------------------------- C11
\* C11: a stored transaction keeps its transaction_balance for as long as it
\* stays in the store, whatever runs later: inserts, deletes of earlier or
\* later transactions, status updates, queries.
C11_BalanceNeverRecomputed ==
    [][ \A i \in DOMAIN transactions, j \in DOMAIN transactions' :
            transactions'[j].id = transactions[i].id
            => transactions'[j].transaction_balance
                 = transactions[i].transaction_balance
      ]_vars

\* C11 witness: the first of two credits of 1 on one account was deleted; the
\* second is still stored with the balance 2 it was inserted with.
C11_Witness ==
    /\ Len(transactions) = 1
    /\ nextId = 3
    /\ transactions[1].id = 2
    /\ transactions[1].type = "credit"
    /\ transactions[1].amount = 1
    /\ transactions[1].transaction_balance = Some(2)

\* ---------------------------------------------------------------- C12
\* C12: update_transaction_status changes the status field of the caller's
\* transaction of the given id and nothing else: no other field, no other
\* transaction, no account, no aggregate balance.
C12_StatusUpdateFrame ==
    [][ last'.op = "update_transaction_status"
        => /\ accounts' = accounts
           /\ Len(transactions') = Len(transactions)
           /\ \A i \in DOMAIN transactions :
                 transactions'[i] =
                    IF /\ transactions[i].id = last'.arg.id
                       /\ transactions[i].user_id = last'.user
                    THEN [transactions[i] EXCEPT !.status = last'.arg.status]
                    ELSE transactions[i]
           /\ \A u \in Owners : BalancesAfter(u) = BalancesBefore(u)
      ]_vars

\* C12 witness: after an update, one of two transactions is Completed, with
\* the balance it was stored with, and the other is still Pending.
C12_Witness ==
    /\ last.op = "update_transaction_status"
    /\ last.outcome = "true"
    /\ Len(transactions) = 2
    /\ transactions[1].id = last.arg.id
    /\ transactions[1].status = "Completed"
    /\ transactions[1].transaction_balance = Some(1)
    /\ transactions[2].status = "Pending"
    /\ transactions[2].transaction_balance = Some(2)

\* ---------------------------------------------------------------- C13
\* The id a delete or update call was made with.
CalledId == IF last'.op = "delete_transaction" THEN last'.arg ELSE last'.arg.id

\* C13: delete_transaction and update_transaction_status return true exactly
\* when the caller owns a stored transaction of the given id at the time of
\* the call; otherwise they return false and the store is unchanged.
C13_ReturnsWhetherFound ==
    [][ (/\ last' # last
         /\ last'.op \in {"delete_transaction", "update_transaction_status"})
        => LET found == TxIndex(transactions, last'.user, CalledId) # {}
           IN  /\ (last'.outcome = "true") <=> found
               /\ ~found => transactions' = transactions
      ]_vars

\* ---------------------------------------------------------------- C14
\* The accounts some stored transaction of the owner names, as account or as
\* destination.
Referenced(u) ==
    {n \in Names : \E i \in DOMAIN transactions :
        /\ transactions[i].user_id = u
        /\ (transactions[i].account = n \/ transactions[i].to_account = n)}

\* C14: on the data_access backends, in every reachable store,
\* get_account_balances returns without error a mapping whose keys are the
\* owner's registered account names, with 0 for every account that no stored
\* transaction names.
C14_BalancesTotal ==
    impl \in {"mongo", "sqlite"}
    => \A u \in Owners :
          LET r == get_account_balances(impl, accounts, transactions, u)
          IN  /\ r.err = "none"
              /\ DOMAIN r.balances = AccountNames(accounts, u)
              /\ \A n \in AccountNames(accounts, u) \ Referenced(u) :
                    r.balances[n] = 0

\* ---------------------------------------------------------------- C17
\* The store with the type of its i-th transaction replaced.
WithType(i, type) == [transactions EXCEPT ![i].type = type]

\* C17: replacing the type debit of a stored transaction by debt_incurred
\* changes nothing in what get_account_balances returns, for any owner.
C17_DebitAsDebtIncurred ==
    \A i \in DOMAIN transactions :
        transactions[i].type = "debit"
        => \A u \in Owners :
              get_account_balances(impl, accounts, WithType(i, "debt_incurred"), u)
                = get_account_balances(impl, accounts, transactions, u)

\* C17 witness: a debit of 2 on a registered account, counted in a balance
\* that the Mongo backend returns.
C17_Witness ==
    /\ impl = "mongo"
    /\ \E i \in DOMAIN transactions :
          /\ transactions[i].type = "debit"
          /\ transactions[i].amount = 2
          /\ transactions[i].user_id = "u1"
          /\ transactions[i].account = "A"
          /\ BalancesBefore("u1").err = "none"
          /\ BalancesBefore("u1").balances["A"] = -2

\* ---------------------------------------------------------------- C15
\* C15: get_account_balances changes neither the transactions nor the
\* accounts, and two calls of one owner with no write in between return the
\* same mapping.
C15_QueryIsPure ==
    [][ last'.op = "get_account_balances"
        => /\ transactions' = transactions
           /\ accounts' = accounts
           /\ result' = get_account_balances(impl, accounts, transactions, last'.user)
           /\ (last.op = "get_account_balances" /\ last.user = last'.user)
              => result' = result
      ]_vars

\* C15 witness: a query of main.py or the Mongo backend that returned a
\* balance other than 0.
C15_Witness ==
    /\ impl \in {"main", "mongo"}
    /\ last.op = "get_account_balances"
    /\ last.outcome = "ok"
    /\ last.user = "u1"
    /\ "A" \in DOMAIN result.balances
    /\ result.balances["A"] = 2

\* ---------------------------------------------------------------- C18
\* C18: get_transactions returns the owner's stored transactions newest
\* first by insertion, also for transactions inserted within one tick of the
\* created_at clock.  Ids are handed out in insertion order.
C18_NewestFirst ==
    (impl \in {"main", "mongo"} /\ last.op = "get_transactions")
    => /\ result.err = "none"
       /\ \A i, j \in DOMAIN result.rows :
             i < j => result.rows[i].id > result.rows[j].id

\* ---------------------------------------------------------------- C19
\* An owner's transactions after the step, oldest first.
HistoryAfter(u) == SelectSeq(transactions', LAMBDA t : t.user_id = u)

\* C19: a call by one owner leaves every other owner's accounts,
\* transactions and aggregate balances as they were, also when it names the
\* id of another owner's transaction; and the transaction_balance an insert
\* stores is the one computed from the inserting owner's records alone.
C19_OwnerIsolation ==
    [][ \A a \in Owners :
          (last' # last /\ last'.user = a)
          => /\ \A b \in Owners \ {a} :
                   /\ \A n \in Names : accounts'[<<b, n>>] = accounts[<<b, n>>]
                   /\ HistoryAfter(b) = History(b)
                   /\ BalancesAfter(b) = BalancesBefore(b)
             /\ Stored
                => NewTx.transaction_balance =
                     add_read(impl, accounts', History(a), a, TxData(NewTx))
                        .transaction_balance
      ]_vars

\* C19 witness: the first owner called delete_transaction with the id of a
\* transaction of the second owner, who has an account of the same name; the
\* transaction is still stored.
C19_Witness ==
    /\ last.op = "delete_transaction"
    /\ last.user = "u1"
    /\ accounts[<<"u1", "A">>] = 1
    /\ accounts[<<"u2", "A">>] = 1
    /\ \E i \in DOMAIN transactions :
          /\ transactions[i].id = last.arg
          /\ transactions[i].user_id = "u2"
    /\ \E i \in DOMAIN transactions : transactions[i].user_id = "u1"

\* ---------------------------------------------------------------- C20
\* The string YYYY-MM-DD of a calendar date.
IsoDate(d) ==
    ZeroPad(Decimal(d.year), 4) \o <<"-">> \o ZeroPad(Decimal(d.month), 2)
        \o <<"-">> \o ZeroPad(Decimal(d.day), 2)

\* The calendar date a stored date value stands for.
DateOf(v) ==
    IF v.kind = "datetime" THEN [year |-> v.year, month |-> v.month, day |-> v.day]
    ELSE CHOOSE d \in Dates \cup {Today} : IsoDate(d) = SubSeq(v.chars, 1, 10)

\* The text get_transactions has to return for a stored date value.
Returned(v) == [kind |-> "str", chars |-> IsoDate(DateOf(v))]

\* C20: on the MongoDB and the SQLite backend a transaction inserted with
\* date d is stored with a value that stands for d, and get_transactions
\* returns every stored transaction of the owner with date equal to the
\* string YYYY-MM-DD of d.
C20_DateRoundTrip ==
    [][ (impl = "mongo" \/ impl = "sqlite")
        => /\ (Stored /\ last'.op = "add_transaction")
              => (DateOf(NewTx.date) = last'.arg.date)
           /\ (last'.op = "get_transactions" /\ transactions' = transactions)
              => /\ result'.err = "none"
                 /\ Len(result'.rows) = Len(History(last'.user))
                 /\ \A k \in DOMAIN result'.rows :
                       \E i \in DOMAIN transactions :
                          /\ transactions[i].id = result'.rows[k].id
                          /\ result'.rows[k].date = Returned(transactions[i].date)
      ]_vars

\* ---------------------------------------------------------------- C16
\* The number of tenths a stored amount was sent as.
Tenths(x) == CHOOSE k \in 0..MaxTenths : Double(k, 10) = x

RECURSIVE SumTenths(_)
SumTenths(txlist) ==
    IF txlist = <<>> THEN 0
    ELSE Tenths(Head(txlist).amount) + SumTenths(Tail(txlist))

\* C16: on the MongoDB backend, once credits of X1, ..., Xn (decimal amounts)
\* are all that is stored on an account, get_account_balances gives for
\* that account exactly the float of the decimal sum X1 + ... + Xn: X for
\* one credit of X, 0.3 for credits of 0.1 and 0.2.
C16_ExactCreditSums ==
    (/\ impl = "mongo"
     /\ last.op = "get_account_balances"
     /\ accounts[<<"u1", "A">>] = 1)
    => /\ result.err = "none"
       /\ result.balances["A"] = Double(SumTenths(History("u1")), 10)

\* ---------------------------------------------------------------- C21
\* The stores that hold the transactions of this one in another order.
Reordered == Orderings({transactions[i] : i \in DOMAIN transactions})

\* C21: the mapping get_account_balances returns does not depend on the
\* order in which the owner's transactions are iterated: over every
\* permutation of the stored transactions it is the same (MongoDB backend,
\* credits with float amounts on a registered account).
C21_OrderIndependent ==
    (impl = "mongo" /\ accounts[<<"u1", "A">>] = 1)
    => \A s \in Reordered :
          Float_get_account_balances(impl, accounts, s, "u1")
            = Float_get_account_balances(impl, accounts, transactions, "u1")

\* ---------------------------------------------------------------- C22
FiveTypes == {"credit", "debit", "debt_incurred", "transferred", "self_transferred"}

\* C22: the MongoDB and the SQLite backend agree: on every store and for
\* every new transaction of one of the five types, the two add_transaction
\* compute the same outcome and transaction_balance, and the two
\* get_account_balances return the same mapping.
C22_BackendsAgree ==
    (impl = "mongo" \/ impl = "sqlite") =>
    \A u \in Owners :
       /\ \A d \in TxMenu(u) :
             d.type \in FiveTypes
             => Mongo_add_read(transactions, u, d) = SQLite_add_read(transactions, u, d)
       /\ Mongo_get_account_balances(accounts, transactions, u)
            = SQLite_get_account_balances(accounts, transactions, u)

\* ---------------------------------------------------------------- C23
\* C23: add_transaction with a type that is none of the five, in any letter
\* case, on a registered account succeeds on every backend and stores the
\* record; the insert changes no aggregate balance and no running balance a
\* later insert would compute.  On SQLite the statement is made for the
\* first insert on an account, the only one whose read returns.
C23_UnknownTypeAccepted ==
    [][ (/\ last'.op = "add_transaction"
         /\ lower(last'.arg.type) \notin FiveTypes
         /\ last'.arg.account \in AccountNames(accounts, last'.user)
         /\ impl = "sqlite"
            => get_transactions_of(transactions, last'.user, last'.arg.account) = <<>>)
        => /\ last'.outcome = "ok"
           /\ Stored
           /\ NewTx.type = last'.arg.type
           /\ \A u \in Owners : BalancesAfter(u) = BalancesBefore(u)
           /\ \A d \in TxMenu(last'.user) :
                 add_read(impl, accounts', transactions', last'.user, d)
                   = add_read(impl, accounts, transactions, last'.user, d)
      ]_vars

\* ---------------------------------------------------------------- C24
\* The same type in the other letter case.
SwapCase(type) ==
    IF type = "Transferred" THEN "transferred"
    ELSE IF type = "transferred" THEN "Transferred"
    ELSE type

\* C24: changing only the letter case of the type of a stored transaction
\* changes no aggregate balance and no transaction_balance a later insert
\* would compute, in main.py's ExpenseTracker and in the data_access
\* backends.  Stated for transactions between two different accounts.
C24_CaseInsensitive ==
    \A i \in DOMAIN transactions :
       LET recased == WithType(i, SwapCase(transactions[i].type))
       IN  transactions[i].account # transactions[i].to_account
           =>
           \A u \in Owners :
              /\ get_account_balances(impl, accounts, recased, u) = BalancesBefore(u)
              /\ \A d \in TxMenu(u) :
                    add_read(impl, accounts, recased, u, d)
                      = add_read(impl, accounts, transactions, u, d)

\* ---------------------------------------------------------------- C25
\* C25: in main.py's ExpenseTracker every stored transaction's account names
\* an account of its owner, and every stored transaction of type transferred
\* or self_transferred has a to_account that names an account of its owner.
C25_ReferencesExist ==
    impl = "main"
    => \A i \in DOMAIN transactions :
          LET t == transactions[i]
          IN  /\ t.account \in AccountNames(accounts, t.user_id)
              /\ t.type \in {"transferred", "self_transferred"}
                 => t.to_account \in AccountNames(accounts, t.user_id)

\* ---------------------------------------------------------------- C26
\* The running balance of an account before an insert: what the fold of the
\* implementation gives over the transactions stored so far.
RunningBalance(i, txs, u, a) ==
    IF i = "main"
    THEN incoming_loop(outgoing_loop(0, outgoing_cursor(txs, u, a)),
                       incoming_cursor(txs, u, a))
    ELSE prev_balance_loop(0, get_transactions_of(txs, u, a), a)

\* C26: when add_transaction stores a transferred or self_transferred
\* transaction whose account equals its to_account, the stored
\* transaction_balance is the running balance of the account before the
\* insert, in main.py and in both data_access backends.
C26_SelfTransferRunningBalance ==
    [][ (/\ Stored
         /\ NewTx.type \in {"transferred", "self_transferred"}
         /\ NewTx.account = NewTx.to_account)
        => NewTx.transaction_balance =
             Some(RunningBalance(impl, transactions, NewTx.user_id, NewTx.account))
      ]_vars

\* ---------------------------------------------------------------- C27
\* C27: in main.py an aggregate balance query that runs beside writes of the
\* same owner never fails: in every interleaving of its two reads with
\* create_account and add_transaction it returns a mapping.
C27_ConcurrentQueryReturns ==
    (impl = "main" /\ last.op = "get_account_balances")
    => (last.outcome = "ok" /\ result.err = "none")

\* ---------------------------------------------------------------- C28
\* C28: in main.py, when inserts run one at a time, nothing has been
\* deleted, every stored type is one of the five in lower case and no
\* transfer names its own account as destination, the transaction_balance
\* stored with a new transaction is the balance get_all_account_balances
\* reports for the transaction's account right after the insert (credits
\* with float amounts).
C28_RunningEqualsAggregate ==
    [][ (/\ impl = "main"
         /\ Stored
         /\ Len(transactions') = nextId' - 1
         /\ \A i \in DOMAIN transactions' :
               /\ transactions'[i].type \in FiveTypes
               /\ transactions'[i].account # transactions'[i].to_account)
        => LET r == Float_get_account_balances(impl, accounts', transactions',
                                               NewTx.user_id)
           IN  /\ r.err = "none"
               /\ NewTx.transaction_balance = Some(r.balances[NewTx.account])
      ]_vars

\* ---------------------------------------------------------------- C29
\* The store without its newest transaction.
Front(s) == SubSeq(s, 1, Len(s) - 1)

\* The step is delete_transaction on the id the add_transaction just before
\* it returned, by the same owner.
DeletesLastInsert ==
    /\ last.op = "add_transaction"
    /\ last.outcome = "ok"
    /\ last'.op = "delete_transaction"
    /\ last'.user = last.user
    /\ last'.arg = nextId - 1

\* C29: add_transaction followed by delete_transaction on the returned id
\* puts the store back: every other stored transaction is as it was, and
\* get_account_balances returns for every owner what it returned before the
\* insert.
C29_InsertThenDelete ==
    [][ DeletesLastInsert
        => /\ transactions' = Front(transactions)
           /\ accounts' = accounts
           /\ \A u \in Owners :
                 BalancesAfter(u)
                   = get_account_balances(impl, accounts, Front(transactions), u)
      ]_vars

\* C29 witness: on MongoDB the second transaction handed out was deleted
\* right after its insert; the first is still stored and the balance of A is
\* again what the first alone gives.
C29_Witness ==
    /\ impl = "mongo"
    /\ last.op = "delete_transaction"
    /\ last.outcome = "true"
    /\ last.user = "u1"
    /\ last.arg = 2
    /\ nextId = 3
    /\ Len(transactions) = 1
    /\ transactions[1].id = 1
    /\ transactions[1].type = "credit"
    /\ transactions[1].account = "A"
    /\ transactions[1].amount = 2
    /\ BalancesBefore("u1").err = "none"
    /\ BalancesBefore("u1").balances["A"] = 2

====
